---- MODULE Spec2Model ----
(***************************************************************************)
(* The digest enrichment pipeline of backend/app: DigestService            *)
(* (create_digest, process_digest), the regenerate endpoint, the           *)
(* process_digest Celery task, and the per-item steps (credibility         *)
(* scoring, summarization, illustration) with their AI provider calls.     *)
(*                                                                         *)
(* The database is the pair (papers, digests).  Every pipeline run works   *)
(* through its own SQLAlchemy session: it holds in-memory copies of the    *)
(* rows it loaded and writes back, at each commit, the attributes it       *)
(* changed since the last commit.                                          *)
(***************************************************************************)
EXTENDS Integers, Sequences, FiniteSets, TLC

\* ------------------------------------------------------------- bounds
NumPapers == 3      \* papers in the database
MaxDigests == 2     \* digests ever created
MaxRuns == 2        \* process_digest executions ever scheduled
MaxFaults == 1      \* failed external calls and process crashes in a behaviour

\* ------------------------------------------------------------- values
None == "<None>"            \* Python None / SQL NULL
Empty == ""                 \* the empty string
Fallback == "fallback"      \* a deterministic fallback text
Text(r) == "t" \o ToString(r)   \* content obtained by run r from an external call

PaperIds == 1..NumPapers
MissingId == NumPapers + 1

\* DigestStatus
PENDING == "pending"
PROCESSING == "processing"
COMPLETED == "completed"
FAILED == "failed"

\* Paper columns written by the pipeline
PaperFields ==
  {"credibility_score", "credibility_breakdown", "credibility_note",
   "sample_size", "methodology_quality", "study_type",
   "summary_headline", "summary_takeaway", "summary_why_matters",
   "key_takeaways", "tags", "image_path", "image_prompt"}

\* A freshly fetched paper: no enrichment column is set
BlankPaper == [f \in PaperFields |-> None]

\* Digest columns written after creation
DigestFields ==
  {"status", "error_message", "intro_text", "connecting_narrative",
   "conclusion_text", "summary_image_path", "processed_at"}

\* get_ai_provider: the providers whose complete() lets a failure propagate,
\* those that swallow it and return "", and names the factory does not know
RaisingProviders == {"groq", "openai", "anthropic"}
SwallowingProviders == {"gemini"}
KnownProviders == RaisingProviders \cup SwallowingProviders \cup {"ollama", "demo"}

\* inputs
DefaultProviderChoices == {"gemini", "groq"}
FullList == [k \in 1..NumPapers |-> k]
ShortList == <<2, MissingId>>
CreateRequests ==
  {[paper_ids |-> FullList, ai_provider |-> "gemini"],
   [paper_ids |-> FullList, ai_provider |-> "groq"],
   [paper_ids |-> ShortList, ai_provider |-> "groq"],
   [paper_ids |-> ShortList, ai_provider |-> "bogus"]}
ExcMessages == {"error", Empty}
UnknownProviderMessage == "Unknown AI provider"

VARIABLES
  papers,               \* papers table: paper id -> row
  digests,              \* digests table: sequence of rows, id = index
  runs,                 \* process_digest executions, id = index
  faults,               \* failed external calls and crashes so far
  default_ai_provider,  \* settings.default_ai_provider
  app_settings,         \* the AppSettings row with id 1: its six weights
  analysis,             \* the last call of CredibilityAnalyzer.analyze
  updates,              \* calls of update_credibility_weights so far
  parsed,               \* the last call of Summarizer._parse_summary
  api_response          \* the last response of reset_paper_summaries, export_newsletter or send_newsletter

vars == <<papers, digests, runs, faults, default_ai_provider, app_settings, analysis, updates, parsed, api_response>>

\* no call of the operation yet
NoCall == <<>>

\* ------------------------------------------------------------- session
\* Assigning attributes of a loaded row: the row in memory and the set of
\* attributes with a net change since the last flush
SetFields(rec, upd) == [f \in DOMAIN rec |-> IF f \in DOMAIN upd THEN upd[f] ELSE rec[f]]
Changed(rec, upd) == {f \in DOMAIN upd : upd[f] # rec[f]}

\* a session that never writes the papers back
KeepPapers(run) == papers

\* a commit that leaves alone the columns another session has filled
FlushRowIfUnset(dbrow, memrow, dirtyset) ==
  [f \in DOMAIN dbrow |->
     IF f \in dirtyset /\ dbrow[f] = None THEN memrow[f] ELSE dbrow[f]]

\* Session.commit(): UPDATE the changed attributes
FlushRow(dbrow, memrow, dirtyset) ==
  [f \in DOMAIN dbrow |-> IF f \in dirtyset THEN memrow[f] ELSE dbrow[f]]

FlushPapers(run) ==
  [p \in PaperIds |-> FlushRow(papers[p], run.mem[p], run.dirty[p])]

FlushDigest(run, dmem, ddirty) ==
  [digests EXCEPT ![run.digest_id] = FlushRow(@, dmem, ddirty)]

NoDirty == [p \in PaperIds |-> {}]
BlankMem == [p \in PaperIds |-> BlankPaper]
NoDigestRow == [f \in DigestFields |-> None]
NoExc == [kind |-> "none", msg |-> None]

\* a relationship without its order_by: the rows in another order
RECURSIVE UnorderedPaperIds(_)
UnorderedPaperIds(dps) ==
  IF dps = {} THEN <<>>
  ELSE LET last == CHOOSE dp \in dps : \A o \in dps : dp.order >= o.order
       IN <<last.paper_id>> \o UnorderedPaperIds(dps \ {last})

\* Digest.digest_papers, order_by DigestPaper.order
RECURSIVE OrderedPaperIds(_)
OrderedPaperIds(dps) ==
  IF dps = {} THEN <<>>
  ELSE LET first == CHOOSE dp \in dps : \A o \in dps : dp.order <= o.order
       IN <<first.paper_id>> \o OrderedPaperIds(dps \ {first})

\* ------------------------------------------------------------- scoring
\* Floats are modelled as exact fractions <<numerator, denominator>> in
\* lowest terms with a positive denominator; Missing is Python's None where
\* a number is expected.
Missing == <<>>
Abs(n) == IF n < 0 THEN 0 - n ELSE n
RECURSIVE GCD(_, _)
GCD(a, b) == IF b = 0 THEN a ELSE GCD(b, a % b)
Rat(n, d) == LET g == GCD(Abs(n), d) IN <<n \div g, d \div g>>
Whole(n) == <<n, 1>>
RAdd(a, b) == Rat(a[1] * b[2] + b[1] * a[2], a[2] * b[2])
RSub(a, b) == Rat(a[1] * b[2] - b[1] * a[2], a[2] * b[2])
RMul(a, b) == Rat(a[1] * b[1], a[2] * b[2])
RDiv(a, b) == Rat(a[1] * b[2], a[2] * b[1])
RLt(a, b) == a[1] * b[2] < b[1] * a[2]
RLe(a, b) == a[1] * b[2] <= b[1] * a[2]
RMin(a, b) == IF RLt(b, a) THEN b ELSE a
RMax(a, b) == IF RLt(a, b) THEN b ELSE a
\* round(x, digits) of a non-negative x, scale = 10^digits: to the nearest
\* multiple of 1/scale, a tie going to the even one
Round(x, scale) ==
  LET t == RMul(x, Whole(scale))
      f == t[1] \div t[2]
      twice == 2 * (t[1] - f * t[2])
      k == IF twice > t[2] THEN f + 1
           ELSE IF twice < t[2] THEN f
           ELSE IF f % 2 = 0 THEN f ELSE f + 1
  IN Rat(k, scale)

WeightNames ==
  {"journal_impact", "author_hindex", "sample_size", "methodology",
   "peer_review", "citation_velocity"}
WeightFields ==
  {"journal_impact_weight", "author_hindex_weight", "sample_size_weight",
   "methodology_weight", "peer_review_weight", "citation_velocity_weight"}
\* AppSettings column defaults, applied when the row is inserted
DefaultRow ==
  [journal_impact_weight |-> Rat(25, 100),
   author_hindex_weight |-> Rat(15, 100),
   sample_size_weight |-> Rat(20, 100),
   methodology_weight |-> Rat(20, 100),
   peer_review_weight |-> Rat(10, 100),
   citation_velocity_weight |-> Rat(10, 100)]
\* AppSettings(id=1) before it is flushed: no weight attribute is set
PendingRow == [f \in WeightFields |-> Missing]
NoSettings == <<>>
NoAnalysis == <<>>
RowTotal(row) ==
  RAdd(row.journal_impact_weight,
  RAdd(row.author_hindex_weight,
  RAdd(row.sample_size_weight,
  RAdd(row.methodology_weight,
  RAdd(row.peer_review_weight, row.citation_velocity_weight)))))

\* CredibilityAnalyzer._get_weights of a fresh analyzer
get_weights ==
  IF app_settings # NoSettings
  THEN [journal_impact |-> app_settings[1].journal_impact_weight,
        author_hindex |-> app_settings[1].author_hindex_weight,
        sample_size |-> app_settings[1].sample_size_weight,
        methodology |-> app_settings[1].methodology_weight,
        peer_review |-> app_settings[1].peer_review_weight,
        citation_velocity |-> app_settings[1].citation_velocity_weight]
  ELSE [journal_impact |-> Rat(25, 100),
        author_hindex |-> Rat(15, 100),
        sample_size |-> Rat(20, 100),
        methodology |-> Rat(20, 100),
        peer_review |-> Rat(10, 100),
        citation_velocity |-> Rat(10, 100)]

JournalCurveUncapped(x) ==
  IF RLt(x, Whole(5)) THEN RMul(RDiv(x, Whole(5)), Whole(50))
  ELSE IF RLt(x, Whole(20))
       THEN RAdd(Whole(50), RMul(RDiv(RSub(x, Whole(5)), Whole(15)), Whole(30)))
       ELSE RAdd(Whole(80), RMul(RDiv(RSub(x, Whole(20)), Whole(30)), Whole(20)))
JournalCurve(x) ==
  IF RLt(x, Whole(5)) THEN RMul(RDiv(x, Whole(5)), Whole(50))
  ELSE IF RLt(x, Whole(20))
       THEN RAdd(Whole(50), RMul(RDiv(RSub(x, Whole(5)), Whole(15)), Whole(30)))
       ELSE RMin(Whole(100),
                 RAdd(Whole(80), RMul(RDiv(RSub(x, Whole(20)), Whole(30)), Whole(20))))
JournalMissingAsZero(paper) ==
  IF paper.journal_impact_factor = Missing THEN Whole(0)
  ELSE JournalCurve(paper.journal_impact_factor)
score_journal_impact(paper) ==
  IF paper.journal_impact_factor = Missing THEN Whole(50)
  ELSE JournalCurve(paper.journal_impact_factor)

h_indices(paper) ==
  {paper.authors[i] : i \in {j \in DOMAIN paper.authors : paper.authors[j] # Missing}}
RMaxOf(S) == CHOOSE x \in S : \A y \in S : RLe(y, x)
HindexCurveWithDrop(max_h) ==
  IF RLt(max_h, Whole(10)) THEN RMul(RDiv(max_h, Whole(10)), Whole(40))
  ELSE IF RLt(max_h, Whole(30))
       THEN RAdd(Whole(40), RMul(RDiv(RSub(max_h, Whole(10)), Whole(20)), Whole(30)))
  ELSE IF RLt(max_h, Whole(60))
       THEN RAdd(Whole(60), RMul(RDiv(RSub(max_h, Whole(30)), Whole(30)), Whole(20)))
       ELSE RMin(Whole(100),
                 RAdd(Whole(90), RMul(RDiv(RSub(max_h, Whole(60)), Whole(40)), Whole(10))))
HindexCurve(max_h) ==
  IF RLt(max_h, Whole(10)) THEN RMul(RDiv(max_h, Whole(10)), Whole(40))
  ELSE IF RLt(max_h, Whole(30))
       THEN RAdd(Whole(40), RMul(RDiv(RSub(max_h, Whole(10)), Whole(20)), Whole(30)))
  ELSE IF RLt(max_h, Whole(60))
       THEN RAdd(Whole(70), RMul(RDiv(RSub(max_h, Whole(30)), Whole(30)), Whole(20)))
       ELSE RMin(Whole(100),
                 RAdd(Whole(90), RMul(RDiv(RSub(max_h, Whole(60)), Whole(40)), Whole(10))))
score_author_hindex(paper) ==
  IF paper.authors = <<>> THEN Whole(50)
  ELSE IF h_indices(paper) = {} THEN Whole(50)
  ELSE HindexCurve(RMaxOf(h_indices(paper)))

\* _extract_sample_size: None without an abstract, else what the reply of
\* the default provider parses to (None when it holds no digits or the
\* call raised)
extract_sample_size(paper, reply) ==
  IF paper.abstract \in {None, Empty} THEN Missing ELSE reply
SampleCurve(n) ==
  IF RLt(n, Whole(30)) THEN RAdd(Whole(20), RMul(RDiv(n, Whole(30)), Whole(20)))
  ELSE IF RLt(n, Whole(100))
       THEN RAdd(Whole(40), RMul(RDiv(RSub(n, Whole(30)), Whole(70)), Whole(20)))
  ELSE IF RLt(n, Whole(1000))
       THEN RAdd(Whole(60), RMul(RDiv(RSub(n, Whole(100)), Whole(900)), Whole(25)))
       ELSE RMin(Whole(100),
                 RAdd(Whole(85),
                      RMul(RDiv(RSub(RMin(n, Whole(10000)), Whole(1000)), Whole(9000)),
                           Whole(15))))
\* the item as _score_sample_size leaves it
WithSampleSize(paper, reply) ==
  IF paper.sample_size = Missing
  THEN [paper EXCEPT !.sample_size = extract_sample_size(paper, reply)]
  ELSE paper
score_sample_size(paper, reply) ==
  IF WithSampleSize(paper, reply).sample_size = Missing THEN Whole(50)
  ELSE SampleCurve(WithSampleSize(paper, reply).sample_size)

ValidMethodologies ==
  {"meta_analysis", "systematic_review", "rct", "cohort", "case_control",
   "cross_sectional", "case_report", "opinion"}
\* _assess_methodology: the second component of its result
assess_methodology(paper, reply) ==
  IF paper.abstract \in {None, Empty} THEN "unknown"
  ELSE IF reply \in ValidMethodologies THEN reply ELSE "unknown"
WithMethodology(paper, reply) ==
  IF paper.methodology_quality = None
  THEN [paper EXCEPT !.methodology_quality = assess_methodology(paper, reply)]
  ELSE paper
quality_scores(methodology) ==
  CASE methodology = "meta_analysis" -> 95
    [] methodology = "systematic_review" -> 90
    [] methodology = "rct" -> 85
    [] methodology = "cohort" -> 70
    [] methodology = "case_control" -> 60
    [] methodology = "cross_sectional" -> 50
    [] methodology = "case_report" -> 30
    [] methodology = "opinion" -> 20
    [] methodology = "unknown" -> 50
    [] OTHER -> 50
score_methodology(paper, reply) ==
  Whole(quality_scores(WithMethodology(paper, reply).methodology_quality))

PeerReviewIgnoringPreprint(paper) ==
  IF paper.is_peer_reviewed THEN Whole(100) ELSE Whole(50)
score_peer_review(paper) ==
  IF paper.is_preprint THEN Whole(40)
  ELSE IF paper.is_peer_reviewed THEN Whole(100) ELSE Whole(50)

\* citations per month; age_days is (now - published_date).days
Velocity(paper) ==
  RDiv(paper.citations, RMax(Whole(1), RDiv(paper.age_days, Whole(30))))
VelocityCurve(velocity) ==
  IF RLt(velocity, Whole(1)) THEN RAdd(Whole(30), RMul(velocity, Whole(20)))
  ELSE IF RLt(velocity, Whole(5))
       THEN RAdd(Whole(50), RMul(RDiv(RSub(velocity, Whole(1)), Whole(4)), Whole(20)))
  ELSE IF RLt(velocity, Whole(20))
       THEN RAdd(Whole(70), RMul(RDiv(RSub(velocity, Whole(5)), Whole(15)), Whole(20)))
       ELSE RMin(Whole(100),
                 RAdd(Whole(90),
                      RMul(RDiv(RSub(RMin(velocity, Whole(100)), Whole(20)), Whole(80)),
                           Whole(10))))
score_citation_velocity(paper) ==
  IF paper.citations = Missing \/ paper.age_days = Missing THEN Whole(50)
  ELSE VelocityCurve(Velocity(paper))

\* _generate_credibility_note: the bucket and the score as "{score:.0f}"
generate_credibility_note(score) ==
  [quality |-> IF RLe(Whole(90), score) THEN "Excellent credibility"
               ELSE IF RLe(Whole(80), score) THEN "High credibility"
               ELSE IF RLe(Whole(60), score) THEN "Moderate credibility"
               ELSE IF RLe(Whole(40), score) THEN "Mixed credibility"
               ELSE "Low credibility",
   shown |-> Round(score, 1)[1]]

Entry(score, weight) ==
  [score |-> score, weight |-> weight, weighted_score |-> RMul(score, weight)]
Breakdown(paper, weights, sample_reply, method_reply) ==
  [journal_impact |-> Entry(score_journal_impact(paper), weights.journal_impact),
   author_hindex |-> Entry(score_author_hindex(paper), weights.author_hindex),
   sample_size |-> Entry(score_sample_size(paper, sample_reply), weights.sample_size),
   methodology |-> Entry(score_methodology(paper, method_reply), weights.methodology),
   peer_review |-> Entry(score_peer_review(paper), weights.peer_review),
   citation_velocity |-> Entry(score_citation_velocity(paper), weights.citation_velocity)]
TotalWithoutVelocity(breakdown) ==
  RAdd(breakdown.journal_impact.weighted_score,
  RAdd(breakdown.author_hindex.weighted_score,
  RAdd(breakdown.sample_size.weighted_score,
  RAdd(breakdown.methodology.weighted_score,
       breakdown.peer_review.weighted_score))))
TotalScore(breakdown) ==
  RAdd(breakdown.journal_impact.weighted_score,
  RAdd(breakdown.author_hindex.weighted_score,
  RAdd(breakdown.sample_size.weighted_score,
  RAdd(breakdown.methodology.weighted_score,
  RAdd(breakdown.peer_review.weighted_score,
       breakdown.citation_velocity.weighted_score)))))
\* CredibilityAnalyzer.analyze: the item as it is left, and the triple
\* returned
analyze(paper, weights, sample_reply, method_reply) ==
  LET breakdown == Breakdown(paper, weights, sample_reply, method_reply)
  IN [paper |-> WithMethodology(WithSampleSize(paper, sample_reply), method_reply),
      score |-> Round(TotalScore(breakdown), 10),
      breakdown |-> breakdown,
      note |-> generate_credibility_note(TotalScore(breakdown))]

\* ------------------------------------------------------------- triggers
\* CredibilityAnalyzer.__init__: self._weights = None
NoWeights == <<>>
\* CredibilityAnalyzer._get_weights: the analyzer's copy, read from the
\* settings at its first call
CachedWeights(cache) == IF cache = NoWeights THEN <<get_weights>> ELSE cache

NewRun(d, origin) ==
  [digest_id |-> d, origin |-> origin, pc |-> "queued",
   paper_ids |-> <<>>, j |-> 1, papers |-> <<>>, i |-> 1,
   snap |-> BlankMem, mem |-> BlankMem, dirty |-> NoDirty,
   dmem |-> NoDigestRow, ddirty |-> {},
   exc |-> NoExc, at |-> "none", prior |-> {}, log |-> <<>>,
   weights |-> NoWeights]

\* DigestService.create_digest + api create_digest: the digest row (PENDING),
\* its DigestPaper rows, and the background task
CreateDigest(paper_ids, ai_provider) ==
  /\ Len(digests) < MaxDigests
  /\ Len(runs) < MaxRuns
  /\ digests' = Append(digests,
       [digest_papers |-> {[order |-> k - 1, paper_id |-> paper_ids[k]] : k \in 1..Len(paper_ids)},
        ai_provider |-> ai_provider,
        status |-> PENDING, error_message |-> None,
        intro_text |-> None, connecting_narrative |-> None,
        conclusion_text |-> None, summary_image_path |-> None,
        processed_at |-> None])
  /\ runs' = Append(runs, NewRun(Len(digests) + 1, "create"))
  /\ UNCHANGED <<papers, faults, default_ai_provider, app_settings, analysis, updates, parsed, api_response>>

\* api regenerate_digest: status := PROCESSING, commit, background task
Regenerate(d) ==
  /\ d \in 1..Len(digests)
  /\ Len(runs) < MaxRuns
  /\ digests' = [digests EXCEPT ![d].status = PROCESSING]
  /\ runs' = Append(runs, NewRun(d, "regenerate"))
  /\ UNCHANGED <<papers, faults, default_ai_provider, app_settings, analysis, updates, parsed, api_response>>

\* tasks.process_digest_task: the Celery task, for any digest id
ProcessDigestTask(d) ==
  /\ d \in 1..MaxDigests
  /\ Len(runs) < MaxRuns
  /\ runs' = Append(runs, NewRun(d, "task"))
  /\ UNCHANGED <<papers, digests, faults, default_ai_provider, app_settings, analysis, updates, parsed, api_response>>

\* ------------------------------------------------------------- process_digest
Finished == {"returned", "done", "failed", "crashed"}

\* lines 61-77: load the digest, status := PROCESSING, commit
Begin(r) ==
  LET run == runs[r] IN
  /\ run.pc = "queued"
  /\ IF run.digest_id \notin 1..Len(digests)
     THEN /\ runs' = [runs EXCEPT ![r].pc = "returned"]
          /\ UNCHANGED digests
     ELSE LET row == digests[run.digest_id]
              loaded == [f \in DigestFields |-> row[f]]
              upd == [status |-> PROCESSING]
          IN /\ digests' = FlushDigest(run, SetFields(loaded, upd), Changed(loaded, upd))
             /\ runs' = [runs EXCEPT ![r] =
                  [run EXCEPT !.pc = "init",
                              !.paper_ids = OrderedPaperIds(row.digest_papers),
                              !.dmem = SetFields(loaded, upd),
                              !.prior = {q \in DOMAIN runs : runs[q].pc \in Finished}]]
  /\ UNCHANGED <<papers, faults, default_ai_provider, app_settings, analysis, updates, parsed, api_response>>

\* an except clause that records the failure without its message
FailureWithoutMessage(msg) == [status |-> FAILED, error_message |-> None]

\* lines 160-164: the except clause and the commit after it, for a run whose
\* session state at the exception is `run`.  The session flushes every
\* pending change: the digest's and the current paper's
FailureUpdate(msg) == [status |-> FAILED, error_message |-> msg]

Fail(r, run, at, kind, msg) ==
  LET upd == FailureUpdate(msg)
      dmem == SetFields(run.dmem, upd)
      ddirty == run.ddirty \cup Changed(run.dmem, upd)
  IN /\ papers' = FlushPapers(run)
     /\ digests' = FlushDigest(run, dmem, ddirty)
     /\ runs' = [runs EXCEPT ![r] =
          [run EXCEPT !.pc = "failed", !.at = at,
                      !.exc = [kind |-> kind, msg |-> msg],
                      !.dmem = dmem, !.ddirty = {}, !.dirty = NoDirty]]

\* lines 82-87: Summarizer(provider, model) calls get_ai_provider, which
\* raises ValueError for a provider name it does not know
InitServices(r) ==
  LET run == runs[r]
      provider == digests[run.digest_id].ai_provider
  IN /\ run.pc = "init"
     /\ IF provider \in KnownProviders
        THEN /\ runs' = [runs EXCEPT ![r].pc = "load"]
             /\ UNCHANGED <<papers, digests>>
        ELSE Fail(r, run, "init", "ValueError", UnknownProviderMessage)
     /\ UNCHANGED <<faults, default_ai_provider, app_settings, analysis, updates, parsed, api_response>>

\* first position after loading: the loop over the loaded papers, or the
\* digest-level steps when no paper was found
AfterLoad(loaded) == IF Len(loaded) = 0 THEN "digest" ELSE "item"

\* lines 91-101: select each paper of paper_ids; ids without a row are skipped
LoadPaper(r) ==
  LET run == runs[r]
      pid == run.paper_ids[run.j]
      found == pid \in PaperIds
      loaded == IF found THEN Append(run.papers, pid) ELSE run.papers
      last == run.j >= Len(run.paper_ids)
  IN /\ run.pc = "load"
     /\ IF run.paper_ids = <<>>
        THEN runs' = [runs EXCEPT ![r].pc = "digest"]
        ELSE runs' = [runs EXCEPT ![r] =
               [run EXCEPT !.papers = loaded,
                           !.snap = IF found THEN [@ EXCEPT ![pid] = papers[pid]] ELSE @,
                           !.mem = IF found THEN [@ EXCEPT ![pid] = papers[pid]] ELSE @,
                           !.j = run.j + 1,
                           !.pc = IF last THEN AfterLoad(loaded) ELSE "load"]]
     /\ UNCHANGED <<papers, digests, faults, default_ai_provider, app_settings, analysis, updates, parsed, api_response>>

\* steps that run whatever the item already holds
AlwaysScore(paper) == TRUE
AlwaysSummarize(paper) == TRUE
AlwaysIllustrate(paper) == TRUE

\* the step guards of the per-paper loop (lines 108, 120, 132)
NeedsScore(paper) == paper.credibility_score = None
NeedsSummary(paper) == paper.summary_headline = None
NeedsImage(paper) == paper.image_path = None

\* outcomes of an external call
CallOutcomes == {"ok", "fail"}
Fails(outs) == Cardinality({c \in DOMAIN outs : outs[c] = "fail"})
\* the outcomes of a set of calls, within the remaining budget of failures
Outcomes(calls) == {outs \in [calls -> CallOutcomes] : faults + Fails(outs) <= MaxFaults}
\* a failed completion propagates from the providers that do not catch it
Raises(provider, out) == out = "fail" /\ provider \in RaisingProviders

\* CredibilityAnalyzer._score_sample_size: extract only when unset
SampleSize(paper, r, out) ==
  IF paper.sample_size = None
  THEN (IF out = "ok" THEN Text(r) ELSE None)
  ELSE paper.sample_size

\* CredibilityAnalyzer._score_methodology / _assess_methodology:
\* (study_type, methodology_quality), classified only when quality is unset
Methodology(paper, r, out) ==
  IF paper.methodology_quality = None
  THEN (IF out = "ok" THEN <<Text(r), Text(r)>> ELSE <<None, "unknown">>)
  ELSE <<paper.study_type, paper.methodology_quality>>

\* CredibilityAnalyzer.generate_ai_credibility_note: response.strip() of the
\* completion; the rule-based note when the provider raises
CredibilityNote(provider, r, out) ==
  IF out = "ok" THEN Text(r)
  ELSE IF provider \in RaisingProviders THEN Fallback ELSE Empty

\* lines 109-117: analyze, then the AI note; the attributes assigned
ScoreUpdate(paper, r, provider, outs) ==
  LET m == Methodology(paper, r, outs["method"])
  IN [sample_size |-> SampleSize(paper, r, outs["sample"]),
      study_type |-> m[1],
      methodology_quality |-> m[2],
      credibility_score |-> Text(r),
      credibility_breakdown |-> Text(r),
      credibility_note |-> CredibilityNote(provider, r, outs["note"])]

\* Summarizer._parse_summary: the fields of the response, with the default
\* of each field the response does not carry
ParseSummary(response) ==
  LET or(v, default) == IF v = Empty THEN default ELSE v
  IN [summary_headline |-> or(response, Fallback),
      summary_takeaway |-> or(response, Fallback),
      summary_why_matters |-> or(response, Fallback),
      key_takeaways |-> or(response, Fallback),
      tags |-> or(response, Fallback)]

\* lines 121-129: Summarizer.summarize of a completion that returned
SummaryUpdate(r, out) == ParseSummary(IF out = "ok" THEN Text(r) ELSE Empty)

\* ImageGenerator._create_prompt: the completion of the default provider,
\* stripped, followed by the fixed style modifiers
ImagePrompt(r, out) == IF out = "ok" THEN Text(r) ELSE Fallback

\* ImageGenerator.generate, after the prompt: generate_image inside
\* try/except, "" when the provider raises or returns no image
ImagePath(r, out) == IF out = "ok" THEN Text(r) ELSE Empty

\* lines 133-134 and ImageGenerator.generate: the attributes assigned
ImageUpdate(r, outs) ==
  [image_prompt |-> ImagePrompt(r, outs["prompt"]),
   image_path |-> ImagePath(r, outs["image"])]

\* the session of a run after assignments to paper p (now `paper`) and the
\* steps they came from
Assigned(run, p, paper, steps) ==
  [run EXCEPT !.mem[p] = paper,
              !.dirty[p] = @ \cup {f \in PaperFields : paper[f] # run.mem[p][f]},
              !.log = @ \o steps]

ItemCalls == {"sample", "method", "note", "summary", "prompt", "image"}

\* lines 105-136, one iteration of the loop: score, summary and image, each
\* when its guard holds, then the commit.  Between the awaits of an iteration
\* the run touches only its own session, so the iteration is one step for
\* every other process; an exception inside it goes to the except clause with
\* the assignments made so far pending in the session
EnrichItem(r) ==
  LET run == runs[r]
      p == run.papers[run.i]
      provider == digests[run.digest_id].ai_provider
      more == run.i < Len(run.papers)
      paper0 == run.mem[p]
      step(name) == <<<<p, name>>>>
  IN /\ run.pc = "item"
     /\ \E outs \in Outcomes(ItemCalls) :
        \E scored \in {NeedsScore(paper0)} :
        \E paper1 \in {IF scored
                       THEN SetFields(paper0, ScoreUpdate(paper0, r, provider, outs))
                       ELSE paper0} :
        \E summarized \in {NeedsSummary(paper1)} :
        \E raised2 \in {summarized /\ Raises(provider, outs["summary"])} :
        \E paper2 \in {IF summarized /\ ~raised2
                       THEN SetFields(paper1, SummaryUpdate(r, outs["summary"]))
                       ELSE paper1} :
        \E imaged \in {~raised2 /\ NeedsImage(paper2)} :
        \E raised3 \in {imaged /\ Raises(default_ai_provider, outs["prompt"])} :
        \E paper3 \in {IF imaged /\ ~raised3
                       THEN SetFields(paper2, ImageUpdate(r, outs))
                       ELSE paper2} :
          LET made == (IF scored /\ paper0.sample_size = None THEN {"sample"} ELSE {})
                      \cup (IF scored /\ paper0.methodology_quality = None THEN {"method"} ELSE {})
                      \cup (IF scored THEN {"note"} ELSE {})
                      \cup (IF summarized THEN {"summary"} ELSE {})
                      \cup (IF imaged THEN {"prompt"} ELSE {})
                      \cup (IF imaged /\ ~raised3 THEN {"image"} ELSE {})
              steps == (IF scored THEN step("score") ELSE <<>>)
                       \o (IF summarized THEN step("summary") ELSE <<>>)
                       \o (IF imaged THEN step("image") ELSE <<>>)
          IN /\ \A c \in ItemCalls \ made : outs[c] = "ok"
             /\ faults' = faults + Fails(outs)
             /\ \E after \in {[Assigned(run, p, paper3, steps) EXCEPT
                                  !.weights = IF scored THEN CachedWeights(@) ELSE @]} :
                  IF raised2
                  THEN \E msg \in ExcMessages : Fail(r, after, "summary", "ProviderError", msg)
                  ELSE IF raised3
                  THEN \E msg \in ExcMessages : Fail(r, after, "image", "ProviderError", msg)
                  ELSE /\ papers' = FlushPapers(after)
                       /\ runs' = [runs EXCEPT ![r] =
                            [after EXCEPT !.dirty = NoDirty,
                                          !.log = Append(@, <<p, "commit">>),
                                          !.i = IF more THEN run.i + 1 ELSE run.i,
                                          !.pc = IF more THEN "item" ELSE "digest"]]
                       /\ UNCHANGED digests
     /\ UNCHANGED <<default_ai_provider, app_settings, analysis, updates, parsed, api_response>>

\* one completion of Summarizer.generate_digest_texts, stripped
DigestText(r, out) == IF out = "ok" THEN Text(r) ELSE Empty

\* lines 140-146: the three texts, assigned when all three completions returned
TextsUpdate(r, outs) ==
  [intro_text |-> DigestText(r, outs["intro"]),
   connecting_narrative |-> DigestText(r, outs["narrative"]),
   conclusion_text |-> DigestText(r, outs["conclusion"])]

\* lines 150-158: the summary infographic, COMPLETED and the time stamp
CompletedUpdate(r, outs) ==
  [summary_image_path |-> ImagePath(r, outs["image"]),
   status |-> COMPLETED,
   processed_at |-> Text(r)]

\* the session of a run after assignments to the digest
AssignedDigest(run, upd, steps) ==
  [run EXCEPT !.dmem = SetFields(@, upd),
              !.ddirty = @ \cup Changed(run.dmem, upd),
              !.log = @ \o steps]

DigestCalls == {"intro", "narrative", "conclusion", "prompt", "image"}
TextCalls == {"intro", "narrative", "conclusion"}

\* lines 138-164: Summarizer.generate_digest_texts (three completions of the
\* digest's provider), ImageGenerator.generate_summary_infographic (its
\* prompt completion runs outside the try block), COMPLETED and the final
\* commit; or the except clause
FinishDigest(r) ==
  LET run == runs[r]
      provider == digests[run.digest_id].ai_provider
  IN /\ run.pc = "digest"
     /\ \E outs \in Outcomes(DigestCalls) :
        \E raised1 \in {\E c \in TextCalls : Raises(provider, outs[c])} :
        \E raised2 \in {~raised1 /\ Raises(default_ai_provider, outs["prompt"])} :
          /\ raised1 => Fails(outs) = 1
          /\ raised2 => outs["image"] = "ok"
          /\ faults' = faults + Fails(outs)
          /\ IF raised1
             THEN \E msg \in ExcMessages :
                    Fail(r, AssignedDigest(run, <<>>, <<<<0, "texts">>>>),
                         "texts", "ProviderError", msg)
             ELSE \E texted \in {AssignedDigest(run, TextsUpdate(r, outs), <<<<0, "texts">>>>)} :
                  IF raised2
                  THEN \E msg \in ExcMessages :
                         Fail(r, AssignedDigest(texted, <<>>, <<<<0, "infographic">>>>),
                              "infographic", "ProviderError", msg)
                  ELSE \E after \in {AssignedDigest(texted, CompletedUpdate(r, outs),
                                                    <<<<0, "infographic">>>>)} :
                         /\ papers' = FlushPapers(after)
                         /\ digests' = FlushDigest(after, after.dmem, after.ddirty)
                         /\ runs' = [runs EXCEPT ![r] =
                              [after EXCEPT !.ddirty = {}, !.pc = "done"]]
     /\ UNCHANGED <<default_ai_provider, app_settings, analysis, updates, parsed, api_response>>

\* the process stops inside process_digest without running the except clause:
\* whatever the session has not committed is lost
Crash(r) ==
  LET run == runs[r]
  IN /\ run.pc \notin Finished \cup {"queued"}
     /\ faults < MaxFaults
     /\ faults' = faults + 1
     /\ runs' = [runs EXCEPT ![r] = [run EXCEPT !.pc = "crashed", !.at = run.pc]]
     /\ UNCHANGED <<papers, digests, default_ai_provider, app_settings, analysis, updates, parsed, api_response>>

\* line 164 raising: the commit that ends process_digest is outside the
\* try, so its exception leaves process_digest, rolls back what the session
\* held since the last commit, and is caught and printed by
\* execute_digest_background (lines 167-180)
CommitRaises(r) ==
  LET run == runs[r]
  IN /\ run.pc = "digest"
     /\ faults < MaxFaults
     /\ faults' = faults + 1
     /\ runs' = [runs EXCEPT ![r] =
          [run EXCEPT !.pc = "raised", !.at = "commit",
                      !.exc = [kind |-> "StorageError", msg |-> Empty]]]
     /\ UNCHANGED <<papers, digests, default_ai_provider, app_settings, analysis,
                    updates, parsed, api_response>>

\* ---------------------------------------------------- scoring inputs
MaxUpdates == 2
MaxImpactFactor == 51
MaxHIndex == 101
MaxCitations == 101
ImpactFactors ==
  {Whole(k) : k \in 0..MaxImpactFactor}
    \cup {Rat(9, 2), Rat(49, 10), Rat(199, 10), Rat(499, 10)}
HIndexes == {Whole(h) : h \in {k \in 0..MaxHIndex : k % 10 \in {0, 1, 5, 9}}}
SampleSizes ==
  {Whole(n) : n \in {0, 1, 15, 29, 30, 31, 65, 99, 100, 101, 550, 999, 1000,
                     1001, 5500, 9999, 10000, 10001, 20000}}
CitationCounts == {Whole(c) : c \in {k \in 0..MaxCitations : k % 5 \in {0, 1, 4}}}
AgesInDays == {Whole(30), Whole(45)}
Velocities ==
  {RDiv(c, RMax(Whole(1), RDiv(a, Whole(30)))) : c \in CitationCounts, a \in AgesInDays}
StoredMethodologies == ValidMethodologies \cup {"unknown", "Cohort study"}
SampleReplies == {Missing, Whole(500)}
MethodReplies == {"rct", "not sure"}
Abstract == "abstract"

\* Paper(...) with nothing known; is_peer_reviewed and is_preprint are the
\* column defaults of the Paper model
BareItem ==
  [journal_impact_factor |-> Missing, authors |-> <<>>, sample_size |-> Missing,
   methodology_quality |-> None, is_preprint |-> FALSE, is_peer_reviewed |-> TRUE,
   citations |-> Missing, age_days |-> Missing, abstract |-> None]
\* neither flag set: the item a file upload creates
Unflagged == [BareItem EXCEPT !.is_peer_reviewed = FALSE]
Item1 ==
  [Unflagged EXCEPT !.is_preprint = TRUE, !.citations = Whole(5),
                    !.age_days = Whole(60), !.authors = <<Missing>>]
Item2 ==
  [Unflagged EXCEPT !.is_peer_reviewed = TRUE, !.journal_impact_factor = Whole(10),
                    !.citations = Whole(50), !.age_days = Whole(30),
                    !.authors = <<Whole(40)>>]
Silent(item) == [paper |-> item, sample_reply |-> Missing, method_reply |-> "not sure"]
Cases ==
  {Silent([Unflagged EXCEPT !.journal_impact_factor = x]) : x \in ImpactFactors}
    \cup {Silent([Unflagged EXCEPT !.authors = <<h>>]) : h \in HIndexes}
    \cup {Silent([Unflagged EXCEPT !.authors = a]) :
            a \in {<<Missing>>, <<Whole(3), Missing, Whole(40)>>, <<Missing, Whole(7)>>}}
    \cup {Silent([Unflagged EXCEPT !.sample_size = n]) : n \in SampleSizes}
    \cup {Silent([Unflagged EXCEPT !.citations = c, !.age_days = a]) :
            c \in CitationCounts, a \in AgesInDays}
    \cup {Silent([Unflagged EXCEPT !.citations = c, !.age_days = a]) :
            c \in {Missing, Whole(3)}, a \in {Missing, Whole(0 - 3), Whole(0), Whole(10)}}
    \cup {Silent([Unflagged EXCEPT !.methodology_quality = m]) : m \in StoredMethodologies}
    \cup {[paper |-> [BareItem EXCEPT !.is_preprint = pre, !.is_peer_reviewed = rev,
                                      !.abstract = abs],
           sample_reply |-> s, method_reply |-> m] :
            pre \in BOOLEAN, rev \in BOOLEAN, abs \in {None, Abstract},
            s \in SampleReplies, m \in MethodReplies}
    \cup {Silent(Item1), Silent(Item2)}

\* accepted bodies of PUT /credibility-weights: the fields that were sent
AllSent(x) == [f \in WeightFields |-> x]
WeightRequests ==
  {<<>>,
   AllSent(Whole(0)),
   AllSent(Whole(1)),
   [f \in {"journal_impact_weight"} |-> Rat(1, 2)],
   [f \in {"peer_review_weight"} |-> Missing]}

\* ---------------------------------------------------- scoring actions
PipelineIdle ==
  UNCHANGED <<papers, digests, runs, faults, default_ai_provider, parsed, api_response>>

\* GET /credibility-weights
GetCredibilityWeights ==
  /\ app_settings' = IF app_settings = NoSettings THEN <<DefaultRow>> ELSE app_settings
  /\ UNCHANGED <<analysis, updates>>
  /\ PipelineIdle

Normalized(row) ==
  IF RLt(Whole(0), RowTotal(row))
  THEN [f \in WeightFields |-> RDiv(row[f], RowTotal(row))]
  ELSE row
\* PUT /credibility-weights; adding None to a float raises before the
\* commit
UpdateCredibilityWeights(request) ==
  /\ updates < MaxUpdates
  /\ updates' = updates + 1
  /\ \E row \in {[f \in WeightFields |->
                    IF f \in DOMAIN request THEN request[f]
                    ELSE IF app_settings = NoSettings THEN PendingRow[f]
                    ELSE app_settings[1][f]]} :
       app_settings' = IF \E f \in WeightFields : row[f] = Missing
                       THEN app_settings
                       ELSE <<Normalized(row)>>
  /\ UNCHANGED analysis
  /\ PipelineIdle

\* CredibilityAnalyzer(db).analyze(paper); a behaviour follows one call
Analyze(case) ==
  /\ analysis = NoAnalysis
  /\ analysis' = <<[given |-> case.paper,
                    weights |-> get_weights,
                    result |-> analyze(case.paper, get_weights,
                                       case.sample_reply, case.method_reply)]>>
  /\ UNCHANGED <<app_settings, updates>>
  /\ PipelineIdle

\* ------------------------------------------------------- _parse_summary
\* A completion text is a sequence of lines; a line is its leading
\* whitespace (indented), the marker it starts with after that ("" when it
\* starts with none of them) and the characters after the marker.  A string
\* is a sequence of characters; Literal(s) is the string constant s.
Literal(s) == <<s>>

Chars == {" ", ",", "a"}

LabelMarkers == {"KEY_TAKEAWAY_1_LABEL:", "KEY_TAKEAWAY_2_LABEL:", "KEY_TAKEAWAY_3_LABEL:"}

TextMarkers == {"KEY_TAKEAWAY_1_TEXT:", "KEY_TAKEAWAY_2_TEXT:", "KEY_TAKEAWAY_3_TEXT:"}

OldMarkers == {"KEY_TAKEAWAY_1:", "KEY_TAKEAWAY_2:", "KEY_TAKEAWAY_3:"}

Markers ==
  {"HEADLINE:", "TAKEAWAY:", "WHY_MATTERS:", "TAGS:", ""}
    \cup LabelMarkers \cup TextMarkers \cup OldMarkers

\* str.strip
RECURSIVE StripLeft(_)
StripLeft(s) == IF s # <<>> /\ Head(s) = " " THEN StripLeft(Tail(s)) ELSE s

RECURSIVE StripRight(_)
StripRight(s) ==
  IF s # <<>> /\ s[Len(s)] = " " THEN StripRight(SubSeq(s, 1, Len(s) - 1)) ELSE s

Strip(s) == StripRight(StripLeft(s))

\* str.split(",")
RECURSIVE Split(_)
Split(s) ==
  IF s = <<>> THEN << <<>> >>
  ELSE LET rest == Split(Tail(s))
       IN IF Head(s) = "," THEN << <<>> >> \o rest
          ELSE << <<Head(s)>> \o Head(rest) >> \o Tail(rest)

\* line 149: the stripped, non-empty segments of the tags line
TagList(value) ==
  LET parts == Split(value)
  IN SelectSeq([i \in DOMAIN parts |-> Strip(parts[i])], LAMBDA t : t # <<>>)

\* a line that is empty once stripped
IsBlank(line) == line.marker = "" /\ Strip(line.rest) = <<>>

RECURSIVE DropBlankHead(_)
DropBlankHead(lines) ==
  IF lines # <<>> /\ IsBlank(Head(lines)) THEN DropBlankHead(Tail(lines)) ELSE lines

RECURSIVE DropBlankTail(_)
DropBlankTail(lines) ==
  IF lines # <<>> /\ IsBlank(lines[Len(lines)])
  THEN DropBlankTail(SubSeq(lines, 1, Len(lines) - 1))
  ELSE lines

\* line 98: response.strip().split("\n"); the strip removes the blank lines
\* around the text and the leading whitespace of its first line
SplitLines(completion) ==
  LET body == DropBlankTail(DropBlankHead(completion))
  IN IF body = <<>> THEN <<>>
     ELSE <<[Head(body) EXCEPT !.indented = FALSE]>> \o Tail(body)

\* dict item assignment
Put(dict, key, value) ==
  [k \in DOMAIN dict \cup {key} |-> IF k = key THEN value ELSE dict[k]]

\* lines 100-107
EmptySummary ==
  [headline |-> <<>>, takeaway |-> <<>>, why_matters |-> <<>>,
   key_takeaways |-> <<>>, tags |-> <<>>, current_takeaway |-> <<>>]

\* lines 111-149: one iteration of the loop over the stripped lines
ParseLine(acc, line) ==
  LET value == Strip(line.rest)
  IN IF line.marker = "HEADLINE:" THEN [acc EXCEPT !.headline = value]
     ELSE IF line.marker = "TAKEAWAY:" THEN [acc EXCEPT !.takeaway = value]
     ELSE IF line.marker = "WHY_MATTERS:" THEN [acc EXCEPT !.why_matters = value]
     ELSE IF line.marker \in LabelMarkers
       THEN [acc EXCEPT !.current_takeaway = Put(@, "label", value)]
     ELSE IF line.marker \in TextMarkers
       THEN LET current == Put(acc.current_takeaway, "text", value)
            IN IF "label" \in DOMAIN current
               THEN [acc EXCEPT
                       !.key_takeaways =
                          Append(@, Literal("**") \o current["label"]
                                      \o Literal("**: ") \o current["text"]),
                       !.current_takeaway = <<>>]
               ELSE [acc EXCEPT !.current_takeaway = current]
     ELSE IF line.marker = "TAGS:" THEN [acc EXCEPT !.tags = TagList(value)]
     ELSE acc

RECURSIVE ParseLines(_, _)
ParseLines(acc, lines) ==
  IF lines = <<>> THEN acc
  ELSE ParseLines(ParseLine(acc, Head(lines)), Tail(lines))

\* lines 153-159: the old format, looked for in the lines as they were split
RECURSIVE OldTakeaways(_)
OldTakeaways(lines) ==
  IF lines = <<>> THEN <<>>
  ELSE LET line == Head(lines)
       IN (IF ~line.indented /\ line.marker \in OldMarkers
           THEN <<Strip(line.rest)>> ELSE <<>>) \o OldTakeaways(Tail(lines))

DefaultTakeaway ==
  Literal("Use this knowledge to improve your understanding of the world.")

\* lines 162-163
RECURSIVE PadTakeaways(_)
PadTakeaways(key_takeaways) ==
  IF Len(key_takeaways) < 3
  THEN PadTakeaways(Append(key_takeaways, DefaultTakeaway))
  ELSE key_takeaways

\* headline without the default of line 166
HeadlineAsParsed(headline) == headline

\* line 166
HeadlineOrDefault(headline) ==
  IF headline = <<>> THEN Literal("Research Finding") ELSE headline

\* Summarizer._parse_summary
parse_summary(completion) ==
  LET lines == SplitLines(completion)
      acc == ParseLines(EmptySummary, lines)
      found == IF acc.key_takeaways = <<>> THEN OldTakeaways(lines)
               ELSE acc.key_takeaways
  IN [headline |-> HeadlineOrDefault(acc.headline),
      takeaway |-> IF acc.takeaway = <<>> THEN Literal("Summary not available.")
                   ELSE acc.takeaway,
      why_matters |-> IF acc.why_matters = <<>>
                      THEN Literal("Implications being assessed.")
                      ELSE acc.why_matters,
      key_takeaways |-> SubSeq(PadTakeaways(found), 1, 3),
      tags |-> IF acc.tags = <<>> THEN <<Literal("research")>> ELSE acc.tags]

\* ------------------------------------------------- completion texts
MaxRest == 2
MaxPairs == 4

RECURSIVE StringsUpTo(_)
StringsUpTo(n) ==
  IF n = 0 THEN {<<>>}
  ELSE LET shorter == StringsUpTo(n - 1)
       IN shorter \cup {Append(s, c) : s \in shorter, c \in Chars}

Rests == StringsUpTo(MaxRest)

TextLine(marker, rest) == [indented |-> FALSE, marker |-> marker, rest |-> rest]

Word == <<" ", "a">>

\* texts of at most one line
OneLiners ==
  {<<>>} \cup {<<[indented |-> ind, marker |-> m, rest |-> rest]>> :
                 ind \in BOOLEAN, m \in Markers, rest \in Rests}

Numbered(k, suffix) ==
  IF k % 3 = 1 THEN "KEY_TAKEAWAY_1" \o suffix
  ELSE IF k % 3 = 2 THEN "KEY_TAKEAWAY_2" \o suffix
  ELSE "KEY_TAKEAWAY_3" \o suffix

\* n label/text pairs, as the prompt asks for them
RECURSIVE Pairs(_)
Pairs(n) ==
  IF n = 0 THEN <<>>
  ELSE Pairs(n - 1) \o <<TextLine(Numbered(n, "_LABEL:"), Word),
                         TextLine(Numbered(n, "_TEXT:"), Word)>>

OldFormat(indented) ==
  <<[indented |-> indented, marker |-> "KEY_TAKEAWAY_1:", rest |-> Word],
    TextLine("KEY_TAKEAWAY_2:", <<>>)>>

Heads ==
  {<<>>,
   <<TextLine("", Word)>>,
   <<TextLine("", <<>>), TextLine("HEADLINE:", Word)>>,
   <<TextLine("HEADLINE:", <<" ">>), TextLine("TAKEAWAY:", Word)>>,
   <<TextLine("HEADLINE:", Word), TextLine("TAKEAWAY:", Word),
     TextLine("WHY_MATTERS:", Word)>>}

Middles ==
  {Pairs(n) : n \in 0..MaxPairs}
    \cup {<<TextLine("KEY_TAKEAWAY_1_LABEL:", Word)>>,
          <<TextLine("KEY_TAKEAWAY_1_TEXT:", Word)>>,
          <<TextLine("KEY_TAKEAWAY_1_TEXT:", Word),
            TextLine("KEY_TAKEAWAY_2_LABEL:", Word)>>,
          <<TextLine("KEY_TAKEAWAY_1_TEXT:", Word),
            TextLine("KEY_TAKEAWAY_2_LABEL:", Word),
            TextLine("KEY_TAKEAWAY_2_TEXT:", <<>>)>>,
          OldFormat(FALSE), OldFormat(TRUE),
          Pairs(1) \o OldFormat(FALSE)}

Endings ==
  {<<>>,
   <<TextLine("TAGS:", <<"a", ",", " ", "a">>)>>,
   <<TextLine("TAGS:", <<" ", ",", " ">>)>>,
   <<TextLine("TAGS:", <<"a">>), TextLine("", <<>>)>>}

Completions ==
  OneLiners \cup {h \o m \o e : h \in Heads, m \in Middles, e \in Endings}

\* Summarizer.summarize, lines 67-74, once the provider returned the text
Parse(completion) ==
  /\ parsed = NoCall
  /\ parsed' = <<[given |-> completion, summary |-> parse_summary(completion)]>>
  /\ UNCHANGED <<papers, digests, runs, faults, default_ai_provider, app_settings,
                 analysis, updates, api_response>>

\* ------------------------------------------------------------ newsletters
\* api/newsletters.py.  api_response holds the export or send call in
\* progress or last answered: the digest status it read, and the HTTP status
\* code of its answer (0 while the composer is at work).
NewsletterCalls == {"export", "send"}

\* lines 42 and 117, for any status
RefusedUnlessProcessed(status) == status \in {PENDING, FAILED}

\* lines 42 and 117
Refused(status) == status # COMPLETED

Composing == api_response # NoCall /\ api_response[1].phase = "composing"

\* export_newsletter lines 36-43, send_newsletter lines 111-118: read the
\* digest, 404 without one, 400 unless it is COMPLETED
NewsletterRequest(call, d) ==
  /\ ~Composing
  /\ \E read \in {IF d \in DOMAIN digests THEN digests[d].status ELSE None} :
       api_response' =
         <<[call |-> call, digest_id |-> d, read |-> read,
            phase |-> IF read = None \/ Refused(read) THEN "answered" ELSE "composing",
            status_code |-> IF read = None THEN 404
                            ELSE IF Refused(read) THEN 400 ELSE 0]>>
  /\ UNCHANGED <<papers, digests, runs, faults, default_ai_provider, app_settings,
                 analysis, updates, parsed>>

\* export_newsletter lines 45-69, send_newsletter lines 120-130: the composer
\* (and the mailer) return or raise; nothing is written
NewsletterRespond ==
  /\ Composing
  /\ \E code \in {200, 500} :
       api_response' = <<[api_response[1] EXCEPT !.phase = "answered",
                                                 !.status_code = code]>>
  /\ UNCHANGED <<papers, digests, runs, faults, default_ai_provider, app_settings,
                 analysis, updates, parsed>>

Init ==
  /\ papers = [p \in PaperIds |-> BlankPaper]
  /\ digests = <<>>
  /\ runs = <<>>
  /\ faults = 0
  /\ default_ai_provider \in DefaultProviderChoices
  /\ app_settings = NoSettings
  /\ analysis = NoAnalysis
  /\ updates = 0
  /\ parsed = NoCall
  /\ api_response = NoCall

Next ==
  \/ \E req \in CreateRequests : CreateDigest(req.paper_ids, req.ai_provider)
  \/ \E d \in 1..MaxDigests : Regenerate(d)
  \/ \E d \in 1..MaxDigests : ProcessDigestTask(d)
  \/ \E r \in DOMAIN runs : Begin(r)
  \/ \E r \in DOMAIN runs : InitServices(r)
  \/ \E r \in DOMAIN runs : LoadPaper(r)
  \/ \E r \in DOMAIN runs : EnrichItem(r)
  \/ \E r \in DOMAIN runs : FinishDigest(r)
  \/ \E r \in DOMAIN runs : Crash(r)

Spec == Init /\ [][Next]_vars

\* The API alone: create_digest, regenerate and their background runs
NextApi ==
  \/ \E req \in CreateRequests : CreateDigest(req.paper_ids, req.ai_provider)
  \/ \E d \in 1..MaxDigests : Regenerate(d)
  \/ \E r \in DOMAIN runs : Begin(r)
  \/ \E r \in DOMAIN runs : InitServices(r)
  \/ \E r \in DOMAIN runs : LoadPaper(r)
  \/ \E r \in DOMAIN runs : EnrichItem(r)
  \/ \E r \in DOMAIN runs : FinishDigest(r)
  \/ \E r \in DOMAIN runs : Crash(r)

SpecApi == Init /\ [][NextApi]_vars

\* Scoring and its settings alone
NextScoring ==
  \/ GetCredibilityWeights
  \/ \E request \in WeightRequests : UpdateCredibilityWeights(request)
  \/ \E case \in Cases : Analyze(case)

SpecScoring == Init /\ [][NextScoring]_vars

\* api reset_paper_summaries: the columns it clears, for every paper that
\* has a headline
ResetFields ==
  {"summary_headline", "summary_takeaway", "summary_why_matters", "key_takeaways",
   "credibility_note", "credibility_score", "credibility_breakdown", "tags"}
ResetRow(row) ==
  IF row.summary_headline # None
  THEN [f \in PaperFields |-> IF f \in ResetFields THEN None ELSE row[f]]
  ELSE row
ResetSummaries ==
  /\ papers' = [p \in PaperIds |-> ResetRow(papers[p])]
  /\ api_response' = <<[call |-> "reset-summaries",
                         reset_count |-> Cardinality({p \in PaperIds : papers[p].summary_headline # None})]>>
  /\ UNCHANGED <<digests, runs, faults, default_ai_provider, app_settings, analysis, updates, parsed>>

\* Digests created over the short list and their runs, with
\* reset-summaries calls in between
NextMaintenance ==
  \/ \E req \in {c \in CreateRequests : c.paper_ids = ShortList} :
        CreateDigest(req.paper_ids, req.ai_provider)
  \/ \E r \in DOMAIN runs : Begin(r)
  \/ \E r \in DOMAIN runs : InitServices(r)
  \/ \E r \in DOMAIN runs : LoadPaper(r)
  \/ \E r \in DOMAIN runs : EnrichItem(r)
  \/ \E r \in DOMAIN runs : FinishDigest(r)
  \/ ResetSummaries

SpecMaintenance == Init /\ [][NextMaintenance]_vars

\* The pipeline run of one created digest while the weights are being
\* updated
NextTuning ==
  \/ \E req \in CreateRequests :
        digests = <<>> /\ CreateDigest(req.paper_ids, req.ai_provider)
  \/ \E r \in DOMAIN runs : Begin(r)
  \/ \E r \in DOMAIN runs : InitServices(r)
  \/ \E r \in DOMAIN runs : LoadPaper(r)
  \/ \E r \in DOMAIN runs : EnrichItem(r)
  \/ \E r \in DOMAIN runs : FinishDigest(r)
  \/ \E request \in WeightRequests : UpdateCredibilityWeights(request)

SpecTuning == Init /\ [][NextTuning]_vars

NextParsing == \E completion \in Completions : Parse(completion)

SpecParsing == Init /\ [][NextParsing]_vars

\* the steps of pipeline run r, each of which returns or raises
RunStep(r) ==
  /\ r \in DOMAIN runs
  /\ \/ Begin(r)
     \/ InitServices(r)
     \/ LoadPaper(r)
     \/ EnrichItem(r)
     \/ FinishDigest(r)
     \/ CommitRaises(r)

NextLive ==
  \/ \E req \in {c \in CreateRequests : c.paper_ids = ShortList} :
       CreateDigest(req.paper_ids, req.ai_provider)
  \/ \E r \in 1..MaxRuns : RunStep(r)

\* the event loop keeps running every background task that can take a step
SpecLive == Init /\ [][NextLive]_vars /\ \A r \in 1..MaxRuns : WF_vars(RunStep(r))

NextNewsletter ==
  \/ \E req \in {c \in CreateRequests : c.paper_ids = ShortList} :
       digests = <<>> /\ CreateDigest(req.paper_ids, req.ai_provider)
  \/ \E d \in 1..MaxDigests : Regenerate(d)
  \/ \E r \in DOMAIN runs : Begin(r)
  \/ \E r \in DOMAIN runs : InitServices(r)
  \/ \E r \in DOMAIN runs : LoadPaper(r)
  \/ \E r \in DOMAIN runs : EnrichItem(r)
  \/ \E r \in DOMAIN runs : FinishDigest(r)
  \/ \E call \in NewsletterCalls : \E d \in 1..MaxDigests : NewsletterRequest(call, d)
  \/ NewsletterRespond

SpecNewsletter == Init /\ [][NextNewsletter]_vars

\* ------------------------------------------------------------- properties
Loaded(run) == {run.papers[k] : k \in 1..Len(run.papers)}
LogSet(run) == {run.log[k] : k \in 1..Len(run.log)}
Requested(run, p) == \E step \in {"score", "summary", "image"} : <<p, step>> \in LogSet(run)
Populated(v) == v # None
NonEmpty(v) == v # None /\ v # Empty
Enriched(paper) ==
  /\ Populated(paper.credibility_score)
  /\ Populated(paper.summary_headline)
  /\ Populated(paper.image_path)
CredibilityFields == {"credibility_score", "credibility_breakdown", "credibility_note"}
SummaryFields ==
  {"summary_headline", "summary_takeaway", "summary_why_matters", "key_takeaways", "tags"}
ExtractedFields == {"sample_size", "methodology_quality"}
EnrichmentFields == CredibilityFields \cup SummaryFields \cup {"image_path"}
Stepped(r) == runs'[r] # runs[r]
Quiet(others) == \A q \in others : runs[q].pc \in {"queued", "returned"}

\* C1: a run that loaded an item after a complete enrichment pass (score,
\* headline and illustration reference all set) changes none of the item's
\* persisted enrichment fields in any of its steps, whether the run comes
\* from a second process_digest, from regenerate or from a second digest.
C1_Idempotent ==
  [][\A r \in DOMAIN runs : \A p \in Loaded(runs[r]) :
       (Stepped(r) /\ Enriched(runs[r].snap[p]))
         => \A f \in EnrichmentFields : papers'[p][f] = papers[p][f]]_vars

C1_Witness ==
  \E r \in DOMAIN runs : \E p \in Loaded(runs[r]) :
    /\ runs[r].pc = "done"
    /\ runs[r].origin = "regenerate"
    /\ Enriched(runs[r].snap[p])
    /\ <<p, "commit">> \in LogSet(runs[r])

\* C2 as stated: no step ever changes a persisted enrichment field that is
\* non-empty before the step.
C2_WriteOnce ==
  [][\A p \in PaperIds : \A f \in EnrichmentFields \cup ExtractedFields :
       NonEmpty(papers[p][f]) => papers'[p][f] = papers[p][f]]_vars

\* C2 amended: a step of a run changes no persisted enrichment field that
\* was non-empty in the item as that run loaded it, also when the item was
\* loaded partially enriched.
C2_WriteOnceAsLoaded ==
  [][\A r \in DOMAIN runs : \A p \in Loaded(runs[r]) :
       \A f \in EnrichmentFields \cup ExtractedFields :
         (Stepped(r) /\ NonEmpty(runs[r].snap[p][f]))
           => papers'[p][f] = papers[p][f]]_vars

\* a finished run that loaded an item with a score but without a headline
\* and committed it
C2_Witness ==
  \E r \in DOMAIN runs : \E p \in Loaded(runs[r]) :
    /\ runs[r].pc = "done"
    /\ NonEmpty(runs[r].snap[p].credibility_score)
    /\ runs[r].snap[p].summary_headline = None
    /\ <<p, "summary">> \in LogSet(runs[r])

\* ------------------------------------------------------------- C3
\* run r loaded three unenriched items and the summary call for item #2
\* threw; no other call failed
SecondSummaryThrew(r) ==
  LET run == runs[r]
  IN /\ run.pc = "failed"
     /\ run.at = "summary"
     /\ run.i = 2
     /\ Len(run.papers) = 3
     /\ \A p \in Loaded(run) : run.snap[p] = BlankPaper
     /\ faults = 1

\* no other run has started, and no regenerate of the digest is pending
Undisturbed(r) ==
  \A q \in DOMAIN runs \ {r} :
    /\ runs[q].pc \in {"queued", "returned"}
    /\ runs[q].origin = "regenerate" => runs[q].digest_id # runs[r].digest_id

AfterFailure(r) ==
  LET run == runs[r]
      item(k) == papers[run.papers[k]]
  IN /\ digests[run.digest_id].status = FAILED
     /\ \A f \in EnrichmentFields : NonEmpty(item(1)[f])
     /\ NonEmpty(item(2).credibility_score)
     /\ \A f \in SummaryFields \cup {"image_path"} : item(2)[f] = None
     /\ item(3) = BlankPaper

\* r2 ran the digest to the end after r1 had failed
Retried(r1, r2) ==
  /\ runs[r2].digest_id = runs[r1].digest_id
  /\ r1 \in runs[r2].prior
  /\ runs[r2].pc = "done"
  /\ Quiet(DOMAIN runs \ {r1, r2})

AfterRetry(r1, r2) ==
  LET run == runs[r1]
      item(k) == papers[run.papers[k]]
  IN /\ \A k \in {2, 3} : \A f \in EnrichmentFields : NonEmpty(item(k)[f])
     /\ \A f \in CredibilityFields : item(1)[f] = Text(r1)
     /\ ~Requested(runs[r2], run.papers[1])

\* C3: when the summary call for item #2 of a 3-item unenriched digest throws,
\* the digest is FAILED, item #1 is fully enriched, item #2 has a score and no
\* headline, item #3 is untouched; a following run without a failing call
\* populates items #2 and #3, leaves item #1's score, breakdown and note as
\* the first run wrote them and makes no request for item #1.
C3_PartialFailure ==
  \A r1 \in DOMAIN runs :
    SecondSummaryThrew(r1) =>
      /\ Undisturbed(r1) => AfterFailure(r1)
      /\ \A r2 \in DOMAIN runs \ {r1} : Retried(r1, r2) => AfterRetry(r1, r2)

C3_Witness ==
  \E r1, r2 \in DOMAIN runs :
    /\ SecondSummaryThrew(r1)
    /\ r1 # r2
    /\ Retried(r1, r2)
    /\ <<runs[r1].papers[2], "summary">> \in LogSet(runs[r2])

\* ------------------------------------------------------------- C4
AllowedTransitions ==
  {<<PENDING, PROCESSING>>, <<PROCESSING, COMPLETED>>, <<PROCESSING, FAILED>>,
   <<COMPLETED, PROCESSING>>, <<FAILED, PROCESSING>>}

\* C4: every change of a digest's persisted status is PENDING->PROCESSING,
\* PROCESSING->COMPLETED, PROCESSING->FAILED, COMPLETED->PROCESSING or
\* FAILED->PROCESSING.
C4_Transitions ==
  [][\A d \in DOMAIN digests :
       digests'[d].status # digests[d].status
         => <<digests[d].status, digests'[d].status>> \in AllowedTransitions]_vars

\* ------------------------------------------------------------- C5
\* C5: a COMPLETED or FAILED digest returns to PROCESSING only by the
\* regenerate operation (the endpoint, or the run it scheduled).
C5_OnlyRegenerate ==
  [][\A d \in DOMAIN digests :
       (digests[d].status \in {COMPLETED, FAILED} /\ digests'[d].status = PROCESSING)
         => \/ Regenerate(d)
            \/ \E r \in DOMAIN runs : runs[r].origin = "regenerate" /\ Begin(r)]_vars

\* ------------------------------------------------------------- C6
NarrativeFields == {"intro_text", "connecting_narrative", "conclusion_text"}
Committed(run) == {p \in PaperIds : <<p, "commit">> \in LogSet(run)}
FailStep(r) == runs[r].pc \notin Finished /\ runs'[r].pc = "failed"

\* what every step into the except clause does: FAILED and the message of
\* the exception on the digest (the message written over the one the run
\* loaded), no item committed earlier and no later item changed, no digest
\* illustration; and a failed run takes no further step
Aborts(r) ==
  LET run == runs[r]
      d == run.digest_id
  IN /\ FailStep(r) =>
          /\ digests'[d].status = FAILED
          /\ digests[d].error_message = run.dmem.error_message
               => digests'[d].error_message = runs'[r].exc.msg
          /\ \A p \in Committed(run) : papers'[p] = papers[p]
          /\ \A p \in PaperIds :
               papers'[p] # papers[p] => run.pc = "item" /\ p = run.papers[run.i]
          /\ digests'[d].summary_image_path = digests[d].summary_image_path
     /\ runs[r].pc = "failed" => runs'[r] = runs[r]

C7_FailedHasMessage ==
  \A d \in DOMAIN digests :
    digests[d].status = FAILED => NonEmpty(digests[d].error_message)

\* ------------------------------------------------------------- C8
\* C8: a failure of the text-completion provider during summarization,
\* illustration-prompt creation or digest text synthesis never fails the
\* run: no run ends in the except clause because of it.
C8_ProviderFailureRecovered ==
  \A r \in DOMAIN runs :
    ~(runs[r].pc = "failed" /\ runs[r].exc.kind = "ProviderError")

\* ------------------------------------------------------------- C9
\* C9: when a run crashed while enriching item k, every enrichment field of
\* items 1..k-1 is populated in the database, and a run of the same digest
\* that starts later makes no scoring, summary or illustration request for
\* items 1..k-1.
C9_CrashDurability ==
  \A r1 \in DOMAIN runs :
    LET run == runs[r1]
    IN (run.pc = "crashed" /\ run.at = "item") =>
         \A k \in 1..(run.i - 1) :
           /\ \A f \in EnrichmentFields : Populated(papers[run.papers[k]][f])
           /\ \A r2 \in DOMAIN runs :
                (runs[r2].digest_id = run.digest_id /\ r1 \in runs[r2].prior)
                  => ~Requested(runs[r2], run.papers[k])

\* a run crashed in item 2 and a later run of the digest finished, enriching
\* item 2
C9_Witness ==
  \E r1, r2 \in DOMAIN runs :
    /\ runs[r1].pc = "crashed"
    /\ runs[r1].at = "item"
    /\ runs[r1].i = 2
    /\ runs[r2].digest_id = runs[r1].digest_id
    /\ r1 \in runs[r2].prior
    /\ runs[r2].pc = "done"
    /\ Requested(runs[r2], runs[r1].papers[2])

\* ------------------------------------------------------------- C10
Order(d, pid) == (CHOOSE dp \in digests[d].digest_papers : dp.paper_id = pid).order
Before(run, n, entry) == \E m \in 1..(n - 1) : run.log[m] = entry

\* C10: a run takes the items in increasing DigestPaper.order; it starts an
\* item only after the commit of every item before it; the narrative
\* synthesis starts after the commit of every item and the digest
\* illustration after the narrative; when the narrative synthesis starts,
\* every item passed to it has a non-empty headline.
C10_Ordering ==
  \A r \in DOMAIN runs :
    LET run == runs[r]
        n_papers == Len(run.papers)
    IN /\ \A a, b \in 1..n_papers :
            a < b => Order(run.digest_id, run.papers[a]) < Order(run.digest_id, run.papers[b])
       /\ \A n \in 1..Len(run.log) : \A b \in 1..n_papers :
            run.log[n][1] = run.papers[b]
              => \A a \in 1..(b - 1) : Before(run, n, <<run.papers[a], "commit">>)
       /\ \A n \in 1..Len(run.log) :
            run.log[n][1] = 0
              => \A p \in Loaded(run) : Before(run, n, <<p, "commit">>)
       /\ \A n \in 1..Len(run.log) :
            run.log[n] = <<0, "infographic">> => Before(run, n, <<0, "texts">>)
       /\ (run.pc = "digest" \/ <<0, "texts">> \in LogSet(run))
            => \A p \in Loaded(run) : NonEmpty(run.mem[p].summary_headline)

\* a finished run that summarized three items
C10_Witness ==
  \E r \in DOMAIN runs :
    /\ runs[r].pc = "done"
    /\ Len(runs[r].papers) = 3
    /\ \A p \in Loaded(runs[r]) : <<p, "summary">> \in LogSet(runs[r])
    /\ <<0, "infographic">> \in LogSet(runs[r])

\* ------------------------------------------------------------- C11
CompletesStep(r) == runs[r].pc # "done" /\ runs'[r].pc = "done"

\* C11: when a run sets a digest to COMPLETED, processed_at is set, every
\* item the run processed has a credibility score and a non-empty headline
\* and takeaway, and the digest's intro text, connecting narrative and
\* conclusion text are non-empty.
C11_CompletedIsComplete ==
  [][\A r \in DOMAIN runs :
       CompletesStep(r) =>
         LET d == runs[r].digest_id
         IN /\ digests'[d].status = COMPLETED
            /\ Populated(digests'[d].processed_at)
            /\ \A p \in Loaded(runs[r]) :
                 /\ Populated(papers'[p].credibility_score)
                 /\ NonEmpty(papers'[p].summary_headline)
                 /\ NonEmpty(papers'[p].summary_takeaway)
            /\ \A f \in NarrativeFields : NonEmpty(digests'[d][f])]_vars

\* ------------------------------------------------------------- C12
\* a run between its first commit and its end
Active(r) == runs[r].pc \notin Finished \cup {"queued"}

\* C12: two executions of process_digest for the same digest never overlap.
C12_OneRunPerDigest ==
  \A r1, r2 \in DOMAIN runs :
    (r1 # r2 /\ runs[r1].digest_id = runs[r2].digest_id) => ~(Active(r1) /\ Active(r2))

\* ------------------------------------------------------------- C13
CommitsItem(r, p) ==
  /\ <<p, "commit">> \notin LogSet(runs[r])
  /\ <<p, "commit">> \in LogSet(runs'[r])

\* both runs, of different digests, loaded item p without a score, scored it
\* and committed it
BothWrote(r1, r2, p) ==
  /\ r1 # r2
  /\ runs[r1].digest_id # runs[r2].digest_id
  /\ \A r \in {r1, r2} :
       /\ p \in Loaded(runs[r])
       /\ runs[r].snap[p].credibility_score = None
       /\ <<p, "score">> \in LogSet(runs[r])
       /\ <<p, "commit">> \in LogSet(runs[r])

\* C13: nothing serializes the access of two runs to an item: the commit of
\* an item by a run writes every enrichment field the run loaded unset with
\* the value that run computed, whatever another run has written to the item
\* in the meantime; so both of two concurrent runs score the item and write
\* it, and the later commit overwrites the earlier one.
C13_SharedItemRace ==
  [][\A r \in DOMAIN runs : \A p \in Loaded(runs[r]) :
       CommitsItem(r, p) =>
         \A f \in EnrichmentFields :
           runs[r].snap[p][f] = None
             => /\ Populated(runs'[r].mem[p][f])
                /\ papers'[p][f] = runs'[r].mem[p][f]]_vars

\* two runs of different digests scored and wrote the same item, and the
\* item holds the values of the second where the first had written its own
C13_Witness ==
  \E r1, r2 \in DOMAIN runs : \E p \in PaperIds :
    /\ BothWrote(r1, r2, p)
    /\ runs[r1].mem[p].credibility_score = Text(r1)
    /\ papers[p].credibility_score = Text(r2)
    /\ papers[p].summary_headline = Text(r2)

\* ------------------------------------------------------------- C14
\* run r requests an illustration for item p in this step and gets no image
NoImageStep(r, p) ==
  /\ <<p, "image">> \notin LogSet(runs[r])
  /\ <<p, "image">> \in LogSet(runs'[r])
  /\ runs'[r].at # "image"
  /\ ~NonEmpty(runs'[r].mem[p].image_path)

\* C14: when the illustration request for an item yields no image, the
\* item's illustration reference is left unset and the run does not fail.
C14_NoImageLeftUnset ==
  [][\A r \in DOMAIN runs : \A p \in Loaded(runs[r]) :
       NoImageStep(r, p) =>
         /\ papers'[p].image_path = None
         /\ runs'[r].pc # "failed"]_vars

\* ------------------------------------------------------------- C15
\* C15: a run that commits an item it loaded without an illustration
\* reference (never requested, or requested earlier without result) has
\* requested an illustration for it.
C15_IllustrationRetried ==
  [][\A r \in DOMAIN runs : \A p \in Loaded(runs[r]) :
       (CommitsItem(r, p) /\ ~NonEmpty(runs[r].snap[p].image_path))
         => <<p, "image">> \in LogSet(runs'[r])]_vars

\* ------------------------------------------------------------- C19
\* C19: the note persisted with a score is never empty: it is the text of
\* the AI assessment, or the deterministic bucket text whenever the AI note
\* request fails (the call raises, or the provider returns empty content).
C19_NoteNeverEmpty ==
  \A p \in PaperIds :
    Populated(papers[p].credibility_score) => NonEmpty(papers[p].credibility_note)

\* C16: whenever the settings record exists, whether created lazily with the
\* defaults or written by update_credibility_weights, its six weights sum
\* to 1.0
C16_WeightsSumToOne ==
  app_settings # NoSettings => RowTotal(app_settings[1]) = Whole(1)

\* the call of analyze a state records
Analyzed == analysis # NoAnalysis
Given == analysis[1].given
Result == analysis[1].result
WeightTotal(breakdown) ==
  RAdd(breakdown.journal_impact.weight,
  RAdd(breakdown.author_hindex.weight,
  RAdd(breakdown.sample_size.weight,
  RAdd(breakdown.methodology.weight,
  RAdd(breakdown.peer_review.weight, breakdown.citation_velocity.weight)))))
\* no citation count, no published date, no author h-index, no journal
\* impact factor, scored with weights that sum to 1.0
Sparse ==
  /\ Analyzed
  /\ Given.citations = Missing
  /\ Given.age_days = Missing
  /\ h_indices(Given) = {}
  /\ Given.journal_impact_factor = Missing
  /\ WeightTotal(Result.breakdown) = Whole(1)
\* nothing was stored or extracted for sample size and methodology
Unassessed ==
  /\ Result.paper.sample_size = Missing
  /\ Result.paper.methodology_quality = "unknown"

\* C17 as stated: every item without citations, date, h-index and impact
\* factor scores exactly 50.0 under weights that sum to 1.0, whatever its
\* flags and abstract
C17_MissingDataNeutral == Sparse => Result.score = Whole(50)

\* C17: such an item scores exactly 50.0 when neither flag is set and its
\* sample size and methodology stay unknown; otherwise the three sub-scores
\* that have data move the total: with unknown sample size and methodology
\* a preprint scores 50 - 10 * peer-review weight and a peer-reviewed item
\* 50 + 50 * peer-review weight, rounded to one decimal
C17_NeutralWhenUnflagged ==
  (Sparse /\ Unassessed) =>
     /\ (~Given.is_preprint /\ ~Given.is_peer_reviewed) => Result.score = Whole(50)
     /\ Given.is_preprint =>
          Result.score =
            Round(RSub(Whole(50), RMul(Whole(10), Result.breakdown.peer_review.weight)), 10)
     /\ (~Given.is_preprint /\ Given.is_peer_reviewed) =>
          Result.score =
            Round(RAdd(Whole(50), RMul(Whole(50), Result.breakdown.peer_review.weight)), 10)
C17_Witness ==
  /\ Sparse
  /\ Unassessed
  /\ ~Given.is_preprint
  /\ ~Given.is_peer_reviewed
  /\ Given.abstract = Abstract
  /\ Result.breakdown.peer_review.weight = Rat(8, 100)
  /\ Result.score = Whole(50)

\* C18: each of the four piecewise curves is non-decreasing: the sub-score
\* an item got is at most the sub-score of the same item with any larger
\* impact factor, maximum h-index, sample size or citation velocity, across
\* the breakpoints and into the capped range
C18_Monotone ==
  Analyzed =>
    /\ Given.journal_impact_factor # Missing =>
         \A x \in ImpactFactors :
            RLt(Given.journal_impact_factor, x) =>
              RLe(Result.breakdown.journal_impact.score,
                  score_journal_impact([Given EXCEPT !.journal_impact_factor = x]))
    /\ h_indices(Given) # {} =>
         \A h \in HIndexes :
            RLt(RMaxOf(h_indices(Given)), h) =>
              RLe(Result.breakdown.author_hindex.score,
                  score_author_hindex([Given EXCEPT !.authors = <<h>>]))
    /\ Result.paper.sample_size # Missing =>
         \A n \in SampleSizes :
            RLt(Result.paper.sample_size, n) =>
              RLe(Result.breakdown.sample_size.score,
                  score_sample_size([Given EXCEPT !.sample_size = n], Missing))
    /\ (Given.citations # Missing /\ Given.age_days # Missing) =>
         \A v \in Velocities :
            RLt(Velocity(Given), v) =>
              RLe(Result.breakdown.citation_velocity.score,
                  score_citation_velocity([Given EXCEPT !.citations = v,
                                                        !.age_days = Whole(30)]))
C18_Witness ==
  /\ Analyzed
  /\ Given.authors = <<Whole(29)>>
  /\ Result.breakdown.author_hindex.score = Rat(137, 2)
  /\ score_author_hindex([Given EXCEPT !.authors = <<Whole(30)>>]) = Whole(70)

\* the weights analyze used are the defaults 0.25/0.15/0.20/0.20/0.10/0.10
DefaultWeighted ==
  /\ Analyzed
  /\ \A k \in WeightNames :
        Result.breakdown[k].weight = DefaultRow[k \o "_weight"]
\* the total the other item of the scenario gets under the same weights
WeightsUsed == [k \in WeightNames |-> Result.breakdown[k].weight]
ScoreOf(item) == analyze(item, WeightsUsed, Missing, "not sure").score
Near(a, b, tolerance) == RLe(RSub(a, b), tolerance) /\ RLe(RSub(b, a), tolerance)

\* C20 as stated: under the default weights item 1 totals about 49.7, item
\* 2 has journal sub-score 70 and peer-review sub-score 100, and item 2's
\* total is strictly higher than item 1's
C20_Scenario ==
  DefaultWeighted =>
    /\ Given = Item1 =>
         /\ Near(Result.score, Rat(497, 10), Rat(1, 10))
         /\ RLt(Result.score, ScoreOf(Item2))
    /\ Given = Item2 =>
         /\ Result.breakdown.journal_impact.score = Whole(70)
         /\ Result.breakdown.peer_review.score = Whole(100)
         /\ RLt(ScoreOf(Item1), Result.score)

\* C20: under the default weights item 1 totals 49.75, returned as 49.8;
\* item 2 has journal sub-score 60 and peer-review sub-score 100 and totals
\* 65.875, returned as 65.9, strictly higher than item 1's total
C20_ScenarioAsScored ==
  DefaultWeighted =>
    /\ Given = Item1 =>
         /\ Result.breakdown.peer_review.score = Whole(40)
         /\ Result.breakdown.citation_velocity.score = Rat(115, 2)
         /\ TotalScore(Result.breakdown) = Rat(199, 4)
         /\ Result.score = Rat(498, 10)
         /\ Near(Result.score, Rat(497, 10), Rat(1, 10))
         /\ RLt(Result.score, ScoreOf(Item2))
    /\ Given = Item2 =>
         /\ Result.breakdown.journal_impact.score = Whole(60)
         /\ Result.breakdown.peer_review.score = Whole(100)
         /\ TotalScore(Result.breakdown) = Rat(527, 8)
         /\ Result.score = Rat(659, 10)
         /\ RLt(ScoreOf(Item1), Result.score)
C20_Witness ==
  /\ DefaultWeighted
  /\ app_settings # NoSettings
  /\ Given = Item2
  /\ Result.score = Rat(659, 10)

\* the sum of the weighted contributions a breakdown records
RECURSIVE Contributions(_, _)
Contributions(breakdown, factors) ==
  IF factors = {} THEN Whole(0)
  ELSE LET k == CHOOSE f \in factors : TRUE
       IN RAdd(breakdown[k].weighted_score, Contributions(breakdown, factors \ {k}))

\* C22: the breakdown of a scored item has exactly the six factors, each
\* contribution is its sub-score times its recorded weight, the recorded
\* weights are the ones analyze read, and the returned total is the sum of
\* the six contributions rounded to one decimal
C22_BreakdownConsistent ==
  Analyzed =>
    /\ DOMAIN Result.breakdown = WeightNames
    /\ \A k \in WeightNames :
         /\ Result.breakdown[k].weighted_score =
              RMul(Result.breakdown[k].score, Result.breakdown[k].weight)
         /\ Result.breakdown[k].weight = analysis[1].weights[k]
    /\ Result.score = Round(Contributions(Result.breakdown, WeightNames), 10)
C22_Witness ==
  /\ Analyzed
  /\ Given = Item2
  /\ analysis[1].weights.journal_impact = Rat(2, 5)
  /\ Result.breakdown.journal_impact.weighted_score = Whole(24)
  /\ app_settings # NoSettings
  /\ app_settings[1].journal_impact_weight # Rat(2, 5)

InBand(score, low, high) == RLe(Whole(low), score) /\ RLt(score, Whole(high))
InTopBand(score, low) == RLe(Whole(low), score) /\ RLe(score, Whole(100))
Below(x, n) == RLt(x, Whole(n))

\* C25: each curve's result lies in the band of the input's interval and in
\* [0,100]; the sample-size curve reaches 100 from n = 10,000 and the
\* velocity curve from velocity 100; months since publication count as at
\* least 1
C25_Bands ==
  Analyzed =>
    /\ \A k \in WeightNames :
         RLe(Whole(0), Result.breakdown[k].score) /\ RLe(Result.breakdown[k].score, Whole(100))
    /\ Given.journal_impact_factor # Missing =>
         LET x == Given.journal_impact_factor
             s == Result.breakdown.journal_impact.score
         IN IF Below(x, 5) THEN InBand(s, 0, 50)
            ELSE IF Below(x, 20) THEN InBand(s, 50, 80)
            ELSE InTopBand(s, 80)
    /\ h_indices(Given) # {} =>
         LET h == RMaxOf(h_indices(Given))
             s == Result.breakdown.author_hindex.score
         IN IF Below(h, 10) THEN InBand(s, 0, 40)
            ELSE IF Below(h, 30) THEN InBand(s, 40, 70)
            ELSE IF Below(h, 60) THEN InBand(s, 70, 90)
            ELSE InTopBand(s, 90)
    /\ Result.paper.sample_size # Missing =>
         LET n == Result.paper.sample_size
             s == Result.breakdown.sample_size.score
         IN /\ IF Below(n, 30) THEN InBand(s, 20, 40)
               ELSE IF Below(n, 100) THEN InBand(s, 40, 60)
               ELSE IF Below(n, 1000) THEN InBand(s, 60, 85)
               ELSE InTopBand(s, 85)
            /\ ~Below(n, 10000) => s = Whole(100)
    /\ (Given.citations # Missing /\ Given.age_days # Missing) =>
         LET v == Velocity(Given)
             s == Result.breakdown.citation_velocity.score
         IN /\ IF Below(v, 1) THEN InBand(s, 30, 50)
               ELSE IF Below(v, 5) THEN InBand(s, 50, 70)
               ELSE IF Below(v, 20) THEN InBand(s, 70, 90)
               ELSE InTopBand(s, 90)
            /\ ~Below(v, 100) => s = Whole(100)
            /\ RLe(v, Given.citations)
            /\ Below(Given.age_days, 30) => v = Given.citations
C25_Witness ==
  /\ Analyzed
  /\ Given.citations = Whole(3)
  /\ Given.age_days = Whole(10)
  /\ Velocity(Given) = Whole(3)
  /\ Result.breakdown.citation_velocity.score = Whole(60)

\* run r scores item p in this step
ScoresItem(r, p) ==
  /\ <<p, "score">> \notin LogSet(runs[r])
  /\ <<p, "score">> \in LogSet(runs'[r])

\* C21: every item a run scores is scored with the weights the settings
\* hold at that scoring step, also when update_credibility_weights has
\* committed since the run scored its previous item
C21_WeightsReadPerItem ==
  [][\A r \in DOMAIN runs : \A p \in Loaded(runs[r]) :
       ScoresItem(r, p) => runs'[r].weights = <<get_weights>>]_vars

\* an earlier scoring of item p, by another run, attempted the extraction
\* of the sample size and got nothing, and the column is still unset
ExtractionFailedBefore(r, p) ==
  /\ papers[p].sample_size = None
  /\ \E q \in DOMAIN runs \ {r} :
        /\ <<p, "score">> \in LogSet(runs[q])
        /\ runs[q].snap[p].sample_size = None
        /\ runs[q].mem[p].sample_size = None

\* C23: after a failed extraction of the sample size, every later scoring
\* of the same item leaves the sample size unset again (the factor scores
\* the neutral 50 again)
C23_ExtractionFailureCached ==
  [][\A r \in DOMAIN runs : \A p \in Loaded(runs[r]) :
       (ScoresItem(r, p) /\ ExtractionFailedBefore(r, p)) =>
          runs'[r].mem[p].sample_size = None]_vars

\* the classification of the methodology was attempted and failed: the item
\* had no category, and no abstract or a reply outside the closed list
ClassificationFailed ==
  /\ Analyzed
  /\ Given.methodology_quality = None
  /\ Result.paper.methodology_quality \notin ValidMethodologies

\* C24: when the classification fails the methodology category is left
\* unset and the methodology factor scores 50
C24_MethodologyLeftUnset ==
  ClassificationFailed =>
    /\ Result.paper.methodology_quality = None
    /\ Result.breakdown.methodology.score = Whole(50)

\* a call of reset_paper_summaries returns in this step
ResetReturns ==
  /\ api_response' # api_response
  /\ api_response'[1].call = "reset-summaries"
HadData(row) == \E f \in ResetFields : row[f] # None

\* C27: after reset_paper_summaries every paper that had any credibility or
\* summary data has the eight columns unset, and no illustration reference
\* has changed
C27_ResetClearsAll ==
  [][ResetReturns =>
       \A p \in PaperIds :
          /\ HadData(papers[p]) => \A f \in ResetFields : papers'[p][f] = None
          /\ papers'[p].image_path = papers[p].image_path]_vars

\* C29: a digest whose persisted status is COMPLETED has no error message
C29_CompletedHasNoError ==
  \A d \in DOMAIN digests :
     digests[d].status = COMPLETED => digests[d].error_message = None
\* ------------------------------------------------------------- C26
\* C26: whatever the completion text, the parsed summary has a non-empty
\* headline, a non-empty takeaway, a non-empty why-matters, exactly three
\* key points and at least one tag.
C26_ParsingTotal ==
  \A i \in DOMAIN parsed :
    LET summary == parsed[i].summary
    IN /\ summary.headline # <<>>
       /\ summary.takeaway # <<>>
       /\ summary.why_matters # <<>>
       /\ Len(summary.key_takeaways) = 3
       /\ Len(summary.tags) >= 1

\* a text with a HEADLINE: line that carries only whitespace, more than three
\* label/text pairs and a tags line was parsed
C26_Witness ==
  \E i \in DOMAIN parsed :
    LET given == parsed[i].given
    IN /\ \E k \in DOMAIN given :
            given[k].marker = "HEADLINE:" /\ Strip(given[k].rest) = <<>>
       /\ Cardinality({k \in DOMAIN given : given[k].marker \in TextMarkers}) > 3
       /\ \E k \in DOMAIN given : given[k].marker = "TAGS:"
       /\ parsed[i].summary.headline = Literal("Research Finding")
\* ------------------------------------------------------------- C28
Ended == Finished \cup {"raised"}

\* C28: every pipeline run that has set its digest to PROCESSING eventually
\* ends with the digest's persisted status COMPLETED or FAILED.
C28_RunsTerminate ==
  \A r \in 1..MaxRuns :
    (r \in DOMAIN runs /\ runs[r].pc \notin {"queued", "returned"})
      ~> (/\ r \in DOMAIN runs
          /\ runs[r].pc \in Ended
          /\ digests[runs[r].digest_id].status \in {COMPLETED, FAILED})
\* ------------------------------------------------------------- C30
NewsletterStep ==
  /\ api_response' # api_response
  /\ api_response'[1].call \in NewsletterCalls

\* C30: an export or send is answered 200 only if it read the digest in
\* COMPLETED status; a digest read as PENDING, PROCESSING or FAILED is
\* answered 400 at once; and no export or send changes the stored state.
C30_NewsletterNeedsCompleted ==
  [][NewsletterStep =>
       LET new == api_response'[1]
           d == new.digest_id
       IN /\ UNCHANGED <<papers, digests, runs>>
          /\ IF Composing
             THEN new.read = api_response[1].read
             ELSE new.read = (IF d \in DOMAIN digests THEN digests[d].status ELSE None)
          /\ new.status_code = 200 => new.read = COMPLETED
          /\ new.read \in {PENDING, PROCESSING, FAILED} =>
               new.phase = "answered" /\ new.status_code = 400]_vars

\* an export was refused while the digest, completed before, was being
\* regenerated
C30_Witness ==
  /\ api_response # NoCall
  /\ api_response[1].call = "export"
  /\ api_response[1].status_code = 400
  /\ api_response[1].read = PROCESSING
  /\ \E r \in DOMAIN runs :
       /\ runs[r].origin = "regenerate"
       /\ runs[r].digest_id = api_response[1].digest_id
       /\ runs[r].pc \notin Finished
       /\ digests[runs[r].digest_id].processed_at # None
====
